---- MODULE Spec2Model ----
(***************************************************************************)
(* A model of the Tracker class of src/src/tracker.ts: the two-level map   *)
(* initializedRecords (type -> id -> record), the operations create,       *)
(* getRecord and submit, and the caller-supplied callbacks onCreate and    *)
(* onSubmit, which run synchronously inside create and submit and may call *)
(* back into the same tracker before they return or throw.                 *)
(***************************************************************************)
EXTENDS Integers, Sequences, FiniteSets, TLC

\* The event kinds P declares: the README's and the tests' names, and two
\* names that Object.prototype has too.
Types == {"pageView", "click", "toString", "hasOwnProperty"}
\* The strings generateId may return; the empty string is one.
Ids == {"a", "b", ""}
\* The payload passed to submit.
Data == {"d1"}

\* The values Date.now() returns.  The code copies them into createdAt and
\* submittedAt and never compares or computes with them, so two stand for
\* all: a reading is equal to, earlier or later than another.
Times == {0, 1}

\* Bounds of the exploration.
MaxCalls == 3
MaxDepth == 2

VARIABLES
  options,             \* the constructor's options bundle (tracker.ts:16-22)
  initializedRecords,  \* Map<type, Map<id, record>> (tracker.ts:10-13)
  now,                 \* the clock Date.now() reads
  stack,               \* the calls suspended inside a callback they have called
  created,             \* history: every record create has made, by serial number
  ncalls,              \* history: the number of API calls made so far
  submitted,           \* history: the types submit has been called with
  ret,                 \* the call the last step completed, if any
  warned               \* what the last step passed to console.warn

vars ==
  <<options, initializedRecords, now, stack, created, ncalls, submitted, ret,
    warned>>

----------------------------------------------------------------------------
\* JavaScript values

\* undefined / null, and a present value v.
Undefined == <<>>
Some(v) == <<v>>

\* if (!id) taking a string, also the empty one, for an id.
FalsyUndefined(v) == v = Undefined

\* if (!id): undefined and the empty string are falsy.
Falsy(v) == v = Undefined \/ v = Some("")

\* TrackingInitialRecord: { id, type, createdAt }.
TrackingInitialRecord(id, type, createdAt) ==
  [id |-> id, type |-> type, createdAt |-> createdAt]

NoRecord == TrackingInitialRecord("", "", 0)

----------------------------------------------------------------------------
\* The inner Map<string, TrackingInitialRecord>: the list of entries of a
\* JavaScript Map, in insertion order.  delete empties an entry in place, set
\* overwrites the value of a present key in place and appends a new key, and
\* forEach walks the list by index, so it skips emptied entries and reaches
\* entries appended while it runs.  sn is history: the serial number of the
\* create call that stored the value.

EmptyEntry == [key |-> Undefined, value |-> NoRecord, sn |-> 0]

MapIndex(m, k) == {i \in DOMAIN m : m[i].key = Some(k)}

MapHas(m, k) == MapIndex(m, k) # {}

MapEntry(m, k) == m[CHOOSE i \in MapIndex(m, k) : TRUE]

\* records.get(id)
MapGet(m, k) == IF MapHas(m, k) THEN Some(MapEntry(m, k).value) ELSE Undefined

\* set adding an entry also for a key that is present.
MapSetAppending(m, k, v, sn) ==
  Append(m, [key |-> Some(k), value |-> v, sn |-> sn])

\* records.set(id, record)
MapSet(m, k, v, sn) ==
  IF MapHas(m, k)
    THEN [m EXCEPT ![CHOOSE i \in MapIndex(m, k) : TRUE] =
                     [key |-> Some(k), value |-> v, sn |-> sn]]
    ELSE Append(m, [key |-> Some(k), value |-> v, sn |-> sn])

\* records.delete(id)
MapDelete(m, k) ==
  IF MapHas(m, k)
    THEN [m EXCEPT ![CHOOSE i \in MapIndex(m, k) : TRUE] = EmptyEntry]
    ELSE m

\* The live entries of a map, in iteration order.
RECURSIVE MapEntries(_)
MapEntries(m) ==
  IF m = <<>> THEN <<>>
  ELSE IF Head(m).key = Undefined THEN MapEntries(Tail(m))
  ELSE <<Head(m)>> \o MapEntries(Tail(m))

\* NextLive with the entry at index i itself passed over.
NextLiveAfter(m, i) ==
  LET live == {j \in DOMAIN m : j > i /\ m[j].key # Undefined}
  IN  IF live = {} THEN 0 ELSE CHOOSE j \in live : \A l \in live : j <= l

\* The first live entry forEach reaches at or after index i (0: none).
NextLive(m, i) ==
  LET live == {j \in DOMAIN m : j >= i /\ m[j].key # Undefined}
  IN  IF live = {} THEN 0 ELSE CHOOSE j \in live : \A l \in live : j <= l

----------------------------------------------------------------------------
\* The outer map

\* this.initializedRecords.has(type)
HasType(recs, type) == type \in DOMAIN recs

\* ensureTypeRecords setting a new Map whether or not the type has one.
EnsureTypeRecordsAnew(recs, type) ==
  [t \in DOMAIN recs \cup {type} |-> IF t = type THEN <<>> ELSE recs[t]]

\* ensureTypeRecords: the outer map after the call.
EnsureTypeRecords(recs, type) ==
  IF HasType(recs, type) THEN recs
  ELSE [t \in DOMAIN recs \cup {type} |-> IF t = type THEN <<>> ELSE recs[t]]

\* delete(id) on the partition of every type.
DeleteRecordOfAnyType(recs, type, id) ==
  [t \in DOMAIN recs |-> MapDelete(recs[t], id)]

\* submit with the delete left out.
DeleteRecordNot(recs, type, id) == recs

\* records.delete(id) on the partition of type (tracker.ts:108, 118).
DeleteRecord(recs, type, id) == [recs EXCEPT ![type] = MapDelete(@, id)]

\* A bulk submit that drops the partition it has emptied.
DeleteEachAndPartition(recs, type, i) ==
  [t \in DOMAIN recs \ {type} |-> recs[t]]

\* records.forEach(record => records.delete(record.id)) with no callback
\* running in between (tracker.ts:106-109 when triggerSubmit finds no handler).
RECURSIVE DeleteEach(_, _, _)
DeleteEach(recs, type, i) ==
  LET j == NextLive(recs[type], i)
  IN  IF j = 0 THEN recs
      ELSE DeleteEach(DeleteRecord(recs, type, recs[type][j].value.id), type, j + 1)

\* getRecord's result and warning on the storage recs.
WarnNoType(type) == <<"No records found for type ", type>>

\* The warning of a missing id worded as that of a missing type.
WarnNoIdAsNoType(id, type) == <<"No records found for type ", type>>

WarnNoId(id, type) == <<"Record with id ", id, " not found for type ", type>>

GetRecordValue(recs, type, id) ==
  IF ~HasType(recs, type) THEN Undefined ELSE MapGet(recs[type], id)

\* getRecord warning of a missing id where the type is missing.
GetRecordWarningOfId(recs, type, id) ==
  IF GetRecordValue(recs, type, id) = Undefined
    THEN <<<<"Record with id ", id, " not found for type ", type>>>>
    ELSE <<>>

GetRecordWarning(recs, type, id) ==
  IF ~HasType(recs, type) THEN <<WarnNoType(type)>>
  ELSE IF MapGet(recs[type], id) = Undefined THEN <<WarnNoId(id, type)>>
  ELSE <<>>

----------------------------------------------------------------------------
\* The options bundle.  generateId and onCreate are configured or not;
\* onSubmit is absent, one function, or a table holding a handler for the
\* types in handlers.

Options ==
  {o \in [generateId : BOOLEAN,
          onCreate : BOOLEAN,
          onSubmit : {"undefined", "function", "table"},
          handlers : SUBSET Types] :
     o.onSubmit # "table" => o.handlers = {}}

\* The ids of the records stored, under any type.
LiveIds(recs) ==
  UNION {{recs[t][k].value.id :
            k \in {j \in DOMAIN recs[t] : recs[t][j].key # Undefined}} :
         t \in DOMAIN recs}

\* defaultIdGenerator(): a string that is the id of no stored record.
DefaultIdGenerator(recs) == (Ids \ {""}) \ LiveIds(recs)

\* generateId (tracker.ts:32-34): the strings it may return on the storage
\* recs, from the configured generator or else from the default one.
GenerateId(recs) ==
  IF options.generateId THEN Ids ELSE DefaultIdGenerator(recs)

\* The members a table, an object literal, inherits from Object.prototype,
\* and the ones among them that return when called with a record and no
\* this; the others throw a TypeError (__proto__ is no function).
ObjectPrototype ==
  {"constructor", "toString", "toLocaleString", "valueOf", "hasOwnProperty",
   "isPrototypeOf", "propertyIsEnumerable", "__proto__", "__defineGetter__",
   "__defineSetter__", "__lookupGetter__", "__lookupSetter__"}
ObjectPrototypeReturns == {"constructor", "toString"}

\* triggerSubmit's fn (tracker.ts:47-50): the handler chosen for type, named
\* "function" for the single function and by its key for a table entry.
\* onSubmit[type] reads a property, so where the table has no entry of its
\* own under a name of Object.prototype, fn is the inherited member.
SubmitHandler(type) ==
  IF options.onSubmit = "function" THEN Some("function")
  ELSE IF options.onSubmit = "table" /\ type \in options.handlers THEN Some(type)
  ELSE IF options.onSubmit = "table" /\ type \in ObjectPrototype
    THEN Some("Object.prototype")
  ELSE Undefined

\* fn is a callback of the program: it may call the tracker, return or throw.
IsCallback(fn) == fn # Undefined /\ fn # Some("Object.prototype")

\* How the call of an inherited member as fn ends.
InheritedCall(type) ==
  IF type \in ObjectPrototypeReturns THEN "returned" ELSE "threw"

\* The argument triggerSubmit builds (tracker.ts:51-55).
SubmitRecord(record, submittedAt, data) ==
  [id |-> record.id, type |-> record.type, createdAt |-> record.createdAt,
   submittedAt |-> submittedAt, data |-> data]

\* One call of a submission handler: which handler, with what, and (history)
\* the serial number of the record passed.
Invocation(fn, entry, submittedAt, data) ==
  [handler |-> fn, arg |-> SubmitRecord(entry.value, submittedAt, data),
   sn |-> entry.sn]

\* The calls forEach makes of fn, one for each entry.
Invocations(fn, entries, submittedAt, data) ==
  [k \in DOMAIN entries |-> Invocation(fn, entries[k], submittedAt, data)]

\* submit's idOrRecord: omitted, a string, or a record object.
Omitted == [kind |-> "undefined", str |-> "", obj |-> NoRecord, hasId |-> FALSE]
Str(s) == [kind |-> "string", str |-> s, obj |-> NoRecord, hasId |-> FALSE]
Obj(r) == [kind |-> "object", str |-> "", obj |-> r, hasId |-> TRUE]

\* An object that has no id field.
ObjectWithoutId ==
  [kind |-> "object", str |-> "", obj |-> NoRecord, hasId |-> FALSE]

\* tracker.ts:104
ResolveId(idOrRecord) ==
  IF idOrRecord.kind = "string" THEN Some(idOrRecord.str)
  ELSE IF idOrRecord.kind = "object" /\ idOrRecord.hasId
    THEN Some(idOrRecord.obj.id)
  ELSE Undefined

----------------------------------------------------------------------------
\* Calls in progress.  A frame of the stack is a submit call whose handler is
\* running or a create call whose onCreate is running; the callback of the
\* top frame is the code that runs now.  disp
\* lists the calls of a submission handler a call has made, seen those of
\* onCreate.

Frame0 ==
  [op |-> "none", type |-> "", data |-> "", submittedAt |-> 0,
   arg |-> "", argType |-> "", id |-> Undefined, bulk |-> FALSE, record |-> NoRecord, sn |-> 0,
   index |-> 0, found |-> FALSE,
   disp |-> <<>>, seen |-> <<>>, atCall |-> <<>>, nested |-> FALSE]

\* What a completed call leaves in ret: its frame, its result and how it ended.
Ended(frame, value, outcome) ==
  [op |-> frame.op, type |-> frame.type, data |-> frame.data,
   submittedAt |-> frame.submittedAt, arg |-> frame.arg,
   argType |-> frame.argType, id |-> frame.id,
   bulk |-> frame.bulk,
   record |-> frame.record, found |-> frame.found,
   disp |-> frame.disp, seen |-> frame.seen, atCall |-> frame.atCall,
   nested |-> frame.nested,
   value |-> value, outcome |-> outcome]

NoRet == Ended(Frame0, Undefined, "none")

\* A create or submit call made by the running callback marks the frame of
\* that callback.
Mark(stk) ==
  IF stk = <<>> THEN stk ELSE [stk EXCEPT ![Len(stk)].nested = TRUE]

CanCall == ncalls < MaxCalls

\* History: the entry of created for a new record.  targeted says that a
\* submit call addressing the record (bulk on its type, or single on its type
\* and id) has been made since, or was running when, it was created; collided
\* that a later create of its type returned its id.
Targets(frame, type, id) ==
  frame.op = "submit" /\ frame.type = type /\ (frame.bulk \/ frame.id = Some(id))

NewCreated(record, stk) ==
  [record |-> record, resolved |-> 0, handled |-> 0,
   targeted |-> \E i \in DOMAIN stk : Targets(stk[i], record.type, record.id),
   collided |-> FALSE]

\* History: the records with serial numbers sns have been resolved by a
\* submit, and passed to a handler when fn is one.
Resolve(crt, sns, fn) ==
  [i \in DOMAIN crt |->
     IF i \in sns
       THEN [crt[i] EXCEPT !.resolved = @ + 1,
                           !.handled = IF fn = Undefined THEN @ ELSE @ + 1]
       ELSE crt[i]]

Target(crt, type, bulk, id) ==
  [i \in DOMAIN crt |->
     IF crt[i].record.type = type /\ (bulk \/ Some(crt[i].record.id) = id)
       THEN [crt[i] EXCEPT !.targeted = TRUE]
       ELSE crt[i]]

Collide(crt, type, id) ==
  [i \in DOMAIN crt |->
     IF crt[i].record.type = type /\ crt[i].record.id = id
       THEN [crt[i] EXCEPT !.collided = TRUE]
       ELSE crt[i]]

----------------------------------------------------------------------------
\* A tracker as constructed.
InitOf(opts) ==
  /\ options \in opts
  /\ initializedRecords = <<>>
  /\ now = 0
  /\ stack = <<>>
  /\ created = <<>>
  /\ ncalls = 0
  /\ submitted = {}
  /\ ret = NoRet
  /\ warned = <<>>

\* A tracker with generateId configured, which may return any id, also the
\* ones the default generator returns, and with no onSubmit or a function.
Init == InitOf({o \in Options : o.generateId /\ o.onSubmit # "table"})

\* A tracker with generateId configured and no onCreate, and with any
\* onSubmit: a table has its own entry for any of the two event kinds.
InitOfAny ==
  InitOf({o \in Options : /\ o.generateId /\ ~o.onCreate
                          /\ o.handlers \subseteq {"toString", "hasOwnProperty"}})

\* A tracker with the configured or the default generator, with or without
\* onCreate, and with a function as onSubmit.
InitOfCreate == InitOf({o \in Options : o.onSubmit = "function"})

\* Date.now() reads t, the wall clock: any time, earlier than the last
\* reading too.  now keeps the last reading.
DateNow(t) == t \in Times /\ now' = t

\* onCreate called before the record is set: the id is not stored yet.
OnCreateCallBeforeSet(record, recs) == [arg |-> record, stored |-> Undefined]

\* The call onCreate?.(record) (tracker.ts:77) on the storage recs: what it
\* is passed, and what is stored under the record's type and id by then.
OnCreateCall(record, recs) ==
  [arg |-> record, stored |-> GetRecordValue(recs, record.type, record.id)]

\* create(type), where generateId returns id and Date.now() t
\* (tracker.ts:72-79).  With onCreate configured the call is suspended in
\* the callback, the record stored; without, it returns the record.
Create(type, id, t) ==
  /\ CanCall
  /\ id \in GenerateId(initializedRecords)
  /\ DateNow(t)
  /\ LET sn == Len(created) + 1
         record == TrackingInitialRecord(id, type, t)
         recs == EnsureTypeRecords(initializedRecords, type)
         stored == [recs EXCEPT ![type] = MapSet(@, id, record, sn)]
         frame == [Frame0 EXCEPT !.op = "create", !.type = type,
                                 !.id = Some(id), !.record = record, !.sn = sn]
     IN  /\ initializedRecords' = stored
         /\ created' = Append(Collide(created, type, id),
                              NewCreated(record, stack))
         /\ IF options.onCreate
              THEN /\ Len(stack) < MaxDepth
                   /\ stack' = Append(Mark(stack),
                        [frame EXCEPT !.seen = <<OnCreateCall(record, stored)>>])
                   /\ ret' = NoRet
              ELSE /\ stack' = Mark(stack)
                   /\ ret' = Ended(frame, Some(record), "returned")
  /\ ncalls' = ncalls + 1
  /\ warned' = <<>>
  /\ UNCHANGED <<options, submitted>>

\* create(type) where the configured generateId throws (tracker.ts:73):
\* nothing catches it, and create ends before anything else is done.
CreateFailing(type) ==
  /\ CanCall
  /\ options.generateId
  /\ ret' = Ended([Frame0 EXCEPT !.op = "create", !.type = type],
                  Undefined, "threw")
  /\ stack' = Mark(stack)
  /\ ncalls' = ncalls + 1
  /\ warned' = <<>>
  /\ UNCHANGED <<options, initializedRecords, now, created, submitted>>

\* The running onCreate returns, and create returns the record
\* (tracker.ts:77-78).
OnCreateReturn ==
  /\ stack # <<>>
  /\ stack[Len(stack)].op = "create"
  /\ stack' = SubSeq(stack, 1, Len(stack) - 1)
  /\ ret' = Ended(stack[Len(stack)], Some(stack[Len(stack)].record), "returned")
  /\ warned' = <<>>
  /\ UNCHANGED <<options, initializedRecords, now, created, ncalls, submitted>>

\* The running onCreate throws: nothing catches it in create (tracker.ts:77).
OnCreateThrow ==
  /\ stack # <<>>
  /\ stack[Len(stack)].op = "create"
  /\ stack' = SubSeq(stack, 1, Len(stack) - 1)
  /\ ret' = Ended(stack[Len(stack)], Undefined, "threw")
  /\ warned' = <<>>
  /\ UNCHANGED <<options, initializedRecords, now, created, ncalls, submitted>>

\* getRecord taking the record out of the partition.
GetRecordTaking(type, id) ==
  /\ CanCall
  /\ LET value == GetRecordValue(initializedRecords, type, id)
         frame == [Frame0 EXCEPT !.op = "getRecord", !.type = type,
                                 !.id = Some(id), !.found = value # Undefined]
     IN  /\ ret' = Ended(frame, value, "returned")
         /\ warned' = GetRecordWarning(initializedRecords, type, id)
         /\ initializedRecords' =
              IF value = Undefined THEN initializedRecords
              ELSE DeleteRecord(initializedRecords, type, id)
  /\ ncalls' = ncalls + 1
  /\ UNCHANGED <<options, now, stack, created, submitted>>

\* getRecord taking the partition from ensureTypeRecords.
GetRecordEnsuring(type, id) ==
  /\ CanCall
  /\ LET recs == EnsureTypeRecords(initializedRecords, type)
         value == GetRecordValue(recs, type, id)
         frame == [Frame0 EXCEPT !.op = "getRecord", !.type = type,
                                 !.id = Some(id), !.found = value # Undefined]
     IN  /\ ret' = Ended(frame, value, "returned")
         /\ warned' = GetRecordWarning(recs, type, id)
         /\ initializedRecords' = recs
  /\ ncalls' = ncalls + 1
  /\ UNCHANGED <<options, now, stack, created, submitted>>

\* getRecord(type, id) (tracker.ts:58-70).
GetRecord(type, id) ==
  /\ CanCall
  /\ LET value == GetRecordValue(initializedRecords, type, id)
         frame == [Frame0 EXCEPT !.op = "getRecord", !.type = type,
                                 !.id = Some(id), !.found = value # Undefined]
     IN  /\ ret' = Ended(frame, value, "returned")
         /\ warned' = GetRecordWarning(initializedRecords, type, id)
  /\ ncalls' = ncalls + 1
  /\ UNCHANGED <<options, initializedRecords, now, stack, created, submitted>>

\* The values of idOrRecord: nothing, a string of ids, or a record create
\* has made.
IdOrRecords(ids) ==
  {Omitted} \cup {Str(id) : id \in ids}
            \cup {Obj(created[i].record) : i \in DOMAIN created}

\* The same and an object without an id.
AnyIdOrRecords(ids) == IdOrRecords(ids) \cup {ObjectWithoutId}

\* submit in bulk mode (tracker.ts:105-111) on the ensured storage recs.
\* Where fn is undefined or an inherited member that returns, no callback of
\* the program runs and forEach empties the partition in one step; where fn
\* is an inherited member that throws, the call ends at the first record;
\* with a handler, the call is suspended in the handler of the first record
\* forEach reaches.
SubmitAll(recs, frame, crt) ==
  LET records == recs[frame.type]
      fn == SubmitHandler(frame.type)
      i == NextLive(records, 1)
      first == [frame EXCEPT !.index = i, !.record = records[i].value,
                             !.sn = records[i].sn,
                             !.disp = <<Invocation(fn[1], records[i],
                                          frame.submittedAt, frame.data)>>]
  IN  IF fn = Undefined \/ (~IsCallback(fn) /\ InheritedCall(frame.type) = "returned")
        THEN /\ initializedRecords' = DeleteEach(recs, frame.type, 1)
             /\ created' =
                  Resolve(crt, {records[j].sn : j \in DOMAIN records} \ {0}, fn)
             /\ stack' = Mark(stack)
             /\ ret' = Ended([frame EXCEPT !.disp =
                                IF fn = Undefined THEN <<>>
                                ELSE Invocations(fn[1], MapEntries(records),
                                                 frame.submittedAt, frame.data)],
                             Undefined, "returned")
        ELSE IF i = 0
        THEN /\ initializedRecords' = recs
             /\ created' = crt
             /\ stack' = Mark(stack)
             /\ ret' = Ended(frame, Undefined, "returned")
        ELSE IF ~IsCallback(fn)
        THEN /\ initializedRecords' = recs
             /\ created' = Resolve(crt, {records[i].sn}, fn)
             /\ stack' = Mark(stack)
             /\ ret' = Ended(first, Undefined, "threw")
        ELSE /\ Len(stack) < MaxDepth
             /\ initializedRecords' = recs
             /\ created' = Resolve(crt, {records[i].sn}, fn)
             /\ stack' = Append(Mark(stack), first)
             /\ ret' = NoRet

\* submit in single mode (tracker.ts:112-118) for the id the frame names.
SubmitOne(recs, frame, crt) ==
  LET records == recs[frame.type]
      id == frame.id[1]
      fn == SubmitHandler(frame.type)
      entry == MapEntry(records, id)
      found == [frame EXCEPT !.found = TRUE, !.record = entry.value,
                             !.sn = entry.sn]
      called == [found EXCEPT !.disp = <<Invocation(fn[1], entry,
                                           frame.submittedAt, frame.data)>>]
  IN  IF MapGet(records, id) = Undefined
        THEN /\ initializedRecords' = recs
             /\ created' = crt
             /\ stack' = Mark(stack)
             /\ ret' = Ended(frame, Undefined, "returned")
             /\ warned' = <<WarnNoId(id, frame.type)>>
        ELSE IF fn = Undefined
        THEN /\ initializedRecords' = DeleteRecord(recs, frame.type, id)
             /\ created' = Resolve(crt, {entry.sn}, fn)
             /\ stack' = Mark(stack)
             /\ ret' = Ended(found, Undefined, "returned")
             /\ warned' = <<>>
        ELSE IF ~IsCallback(fn)
        THEN /\ initializedRecords' =
                  IF InheritedCall(frame.type) = "returned"
                    THEN DeleteRecord(recs, frame.type, id)
                    ELSE recs
             /\ created' = Resolve(crt, {entry.sn}, fn)
             /\ stack' = Mark(stack)
             /\ ret' = Ended(called, Undefined, InheritedCall(frame.type))
             /\ warned' = <<>>
        ELSE /\ Len(stack) < MaxDepth
             /\ initializedRecords' = recs
             /\ created' = Resolve(crt, {entry.sn}, fn)
             /\ stack' = Append(Mark(stack), called)
             /\ ret' = NoRet
             /\ warned' = <<>>

\* submit from its second statement on (tracker.ts:103-118), on the storage
\* recs that holds a partition for type.
SubmitOn(recs, type, data, idOrRecord, t) ==
  /\ CanCall
  /\ DateNow(t)
  /\ LET id == ResolveId(idOrRecord)
         frame == [Frame0 EXCEPT !.op = "submit", !.type = type, !.data = data,
                                 !.submittedAt = t,
                                 !.arg = idOrRecord.kind,
                                 !.argType = idOrRecord.obj.type, !.id = id,
                                 !.bulk = Falsy(id),
                                 !.atCall = MapEntries(recs[type])]
         crt == Target(created, type, Falsy(id), id)
     IN  IF Falsy(id)
           THEN SubmitAll(recs, frame, crt) /\ warned' = <<>>
           ELSE SubmitOne(recs, frame, crt)
  /\ ncalls' = ncalls + 1
  /\ submitted' = submitted \cup {type}
  /\ UNCHANGED options

\* submit looking the partition up as getRecord does, and returning when
\* there is none.
SubmitUnlessAbsent(type, data, idOrRecord, t) ==
  IF HasType(initializedRecords, type)
    THEN SubmitOn(initializedRecords, type, data, idOrRecord, t)
    ELSE /\ CanCall
         /\ DateNow(t)
         /\ ret' = Ended([Frame0 EXCEPT !.op = "submit", !.type = type,
                                        !.data = data, !.submittedAt = t,
                                        !.arg = idOrRecord.kind,
                                        !.argType = idOrRecord.obj.type,
                                        !.id = ResolveId(idOrRecord),
                                        !.bulk = Falsy(ResolveId(idOrRecord))],
                         Undefined, "returned")
         /\ warned' = <<>>
         /\ ncalls' = ncalls + 1
         /\ submitted' = submitted \cup {type}
         /\ UNCHANGED <<options, initializedRecords, stack, created>>

\* submit(type, data, idOrRecord), where Date.now() returns t
\* (tracker.ts:97-119).
Submit(type, data, idOrRecord, t) ==
  SubmitOn(EnsureTypeRecords(initializedRecords, type), type, data, idOrRecord, t)

\* The running handler returns.  In a single submit the id is deleted
\* (tracker.ts:118); in a bulk submit the id of the record just passed is
\* deleted (tracker.ts:108) and forEach goes on to the next entry.
HandlerReturn ==
  /\ stack # <<>>
  /\ stack[Len(stack)].op = "submit"
  /\ LET f == stack[Len(stack)]
         rest == SubSeq(stack, 1, Len(stack) - 1)
         recs == DeleteRecord(initializedRecords, f.type, f.record.id)
         records == recs[f.type]
         fn == SubmitHandler(f.type)
         i == NextLive(records, f.index + 1)
     IN  IF ~f.bulk
           THEN /\ initializedRecords' =
                     DeleteRecord(initializedRecords, f.type, f.id[1])
                /\ stack' = rest
                /\ ret' = Ended(f, Undefined, "returned")
                /\ UNCHANGED created
         ELSE IF i = 0
           THEN /\ initializedRecords' = recs
                /\ stack' = rest
                /\ ret' = Ended(f, Undefined, "returned")
                /\ UNCHANGED created
         ELSE   /\ initializedRecords' = recs
                /\ created' = Resolve(created, {records[i].sn}, fn)
                /\ stack' = Append(rest,
                     [f EXCEPT !.index = i, !.record = records[i].value,
                               !.sn = records[i].sn,
                               !.disp = Append(@, Invocation(fn[1], records[i],
                                                    f.submittedAt, f.data))])
                /\ ret' = NoRet
  /\ warned' = <<>>
  /\ UNCHANGED <<options, now, ncalls, submitted>>

\* The running handler throws and the record it was passed is deleted all
\* the same.
HandlerThrowDeleting ==
  /\ stack # <<>>
  /\ stack[Len(stack)].op = "submit"
  /\ initializedRecords' =
       DeleteRecord(initializedRecords, stack[Len(stack)].type,
                    stack[Len(stack)].record.id)
  /\ stack' = SubSeq(stack, 1, Len(stack) - 1)
  /\ ret' = Ended(stack[Len(stack)], Undefined, "threw")
  /\ warned' = <<>>
  /\ UNCHANGED <<options, now, created, ncalls, submitted>>

\* The running handler throws: nothing catches it in submit (tracker.ts:107,
\* 117), so the call ends there and its caller, the program or the handler
\* beneath, goes on.
HandlerThrow ==
  /\ stack # <<>>
  /\ stack[Len(stack)].op = "submit"
  /\ stack' = SubSeq(stack, 1, Len(stack) - 1)
  /\ ret' = Ended(stack[Len(stack)], Undefined, "threw")
  /\ warned' = <<>>
  /\ UNCHANGED <<options, initializedRecords, now, created, ncalls, submitted>>

\* The calls the program and the running callback make, with types, ids and
\* values of idOrRecord of the sets given.
Calls(types, ids, idOrRecords) ==
  \/ \E type \in types, id \in ids, t \in Times : Create(type, id, t)
  \/ \E type \in types : CreateFailing(type)
  \/ \E type \in types, id \in ids : GetRecord(type, id)
  \/ \E type \in types, data \in Data, idOrRecord \in idOrRecords,
        t \in Times : Submit(type, data, idOrRecord, t)

\* The tests' event kinds and two ids.
Next ==
  \/ Calls({"pageView", "click"}, {"a", "b"}, IdOrRecords({"a", "b"}))
  \/ OnCreateReturn
  \/ OnCreateThrow
  \/ HandlerReturn
  \/ HandlerThrow

Spec == Init /\ [][Next]_vars

\* Two event kinds named as members of Object.prototype, the empty id, and
\* every form of idOrRecord.
NextOfAny ==
  \/ Calls({"toString", "hasOwnProperty"}, {"a", ""}, AnyIdOrRecords({"a", ""}))
  \/ HandlerReturn
  \/ HandlerThrow

SpecOfAny == InitOfAny /\ [][NextOfAny]_vars

\* One event kind and every id, the empty one too.
NextOfCreate ==
  \/ Calls({"pageView"}, Ids, IdOrRecords({}))
  \/ OnCreateReturn
  \/ OnCreateThrow
  \/ HandlerReturn
  \/ HandlerThrow

SpecOfCreate == InitOfCreate /\ [][NextOfCreate]_vars

----------------------------------------------------------------------------
\* Properties

\* The record stored under (type, id), as getRecord returns it.
Stored(type, id) == GetRecordValue(initializedRecords, type, id)

\* A submit call that has returned in the step just taken.
SubmitReturned == ret.op = "submit" /\ ret.outcome = "returned"

\* The entry of a submit call's partition, as it was when the call was made,
\* that held the id the call names.
AtCall(r) == r.atCall[CHOOSE k \in DOMAIN r.atCall : r.atCall[k].key = r.id]

\* C1 as stated: every record create has made is returned by getRecord under
\* its type and id, equal to what create returned, as long as no submit call
\* has addressed it (bulk on its type, or single on its type and id).
C1_StoredUntilSubmitted ==
  \A i \in DOMAIN created :
    ~created[i].targeted =>
      Stored(created[i].record.type, created[i].record.id) = Some(created[i].record)

\* C1 amended: a record create has made is returned by getRecord under its
\* type and id, equal to what create returned, as long as no submit call has
\* addressed it and no later create of the same type has returned its id.
C1_StoredUntilSubmittedOrReplaced ==
  \A i \in DOMAIN created :
    ~created[i].targeted /\ ~created[i].collided =>
      Stored(created[i].record.type, created[i].record.id) = Some(created[i].record)

\* C1 witness: the first record is still stored, never addressed nor
\* replaced, after another record of its type was created and submitted.
C1_Witness ==
  /\ Len(created) >= 2
  /\ ~created[1].targeted /\ ~created[1].collided
  /\ created[2].record.type = created[1].record.type
  /\ created[2].resolved = 1
  /\ ret.op = "submit" /\ ret.found
  /\ Stored(created[1].record.type, created[1].record.id) = Some(created[1].record)

\* C2: a single-mode submit that found its record and returned has called
\* the handler of its type, when there is one, exactly once, with the fields
\* of the record create stored under that id plus the call's submittedAt and
\* data, and getRecord under that type and id now returns null.
C2_SingleSubmitConsumes ==
  SubmitReturned /\ ~ret.bulk /\ ret.found =>
    LET r == created[AtCall(ret).sn].record
    IN  /\ AtCall(ret).value = r
        /\ SubmitHandler(ret.type) # Undefined =>
             /\ Len(ret.disp) = 1
             /\ ret.disp[1].arg =
                  [id |-> r.id, type |-> r.type, createdAt |-> r.createdAt,
                   submittedAt |-> ret.submittedAt, data |-> ret.data]
        /\ Stored(ret.type, ret.id[1]) = Undefined

\* C2 witness: a submit by record object has returned from its handler.
C2_Witness ==
  /\ SubmitReturned /\ ~ret.bulk /\ ret.found
  /\ ret.arg = "object"
  /\ Len(ret.disp) = 1
  /\ ret.submittedAt > ret.record.createdAt

\* C3: no record create has made is passed to a submission handler more
\* than once.
C3_HandledAtMostOnce ==
  \A i \in DOMAIN created : created[i].handled <= 1

\* C4: a bulk submit that has returned leaves no id of its type readable,
\* and, when its handler called neither create nor submit on the tracker, it has
\* called the handler once for each record the partition held when submit
\* was called, in the partition's order, and for nothing else.
C4_BulkSubmitClears ==
  SubmitReturned /\ ret.bulk =>
    /\ \A id \in Ids : Stored(ret.type, id) = Undefined
    /\ SubmitHandler(ret.type) # Undefined /\ ~ret.nested =>
         /\ Len(ret.disp) = Len(ret.atCall)
         /\ \A k \in DOMAIN ret.atCall :
              /\ ret.disp[k].sn = ret.atCall[k].sn
              /\ ret.disp[k].arg =
                   SubmitRecord(ret.atCall[k].value, ret.submittedAt, ret.data)

\* C4 witness: a bulk submit over two records has returned after two calls
\* of the handler.
C4_Witness ==
  /\ SubmitReturned /\ ret.bulk /\ ret.arg = "undefined"
  /\ Len(ret.atCall) = 2
  /\ Len(ret.disp) = 2

\* C5: with a table of handlers, every handler a submit call for a type has
\* called, in a call that is running or has just ended, is the entry the
\* table has for that type.
C5_HandlerRouting ==
  options.onSubmit = "table" =>
    /\ \A i \in DOMAIN stack : \A k \in DOMAIN stack[i].disp :
         /\ stack[i].disp[k].handler = stack[i].type
         /\ stack[i].type \in options.handlers
    /\ \A k \in DOMAIN ret.disp :
         /\ ret.disp[k].handler = ret.type
         /\ ret.type \in options.handlers

\* A lookup that resolved to not found in the step just taken: a getRecord
\* that returned null, or a single-mode submit that found no record.
FailedSubmit == ret.op = "submit" /\ ~ret.bulk /\ ~ret.found
FailedLookup == (ret.op = "getRecord" /\ ret.value = Undefined) \/ FailedSubmit

\* The types create has been called with.
CreatedTypes == {created[i].record.type : i \in DOMAIN created}

\* The calls of submission handlers made so far, by record.
Handled == [i \in DOMAIN created |-> created[i].handled]

\* C6: a single-mode submit whose id has no record under its type warns
\* `Record with id {id} not found for type {type}` and returns with no
\* handler called, no handler left running and every partition as it was.
C6_MissingIdSubmit ==
  [][FailedSubmit' =>
       /\ warned' = <<<<"Record with id ", ret'.id[1],
                        " not found for type ", ret'.type>>>>
       /\ ret'.outcome = "returned" /\ ret'.disp = <<>>
       /\ Handled' = Handled
       /\ Len(stack') = Len(stack)
       /\ \A t \in DOMAIN initializedRecords :
            initializedRecords'[t] = initializedRecords[t]]_vars

\* C6 witness: a single-mode submit has found no record for its id in a
\* partition that holds another record, under a type that has a handler.
C6_Witness ==
  /\ FailedSubmit
  /\ SubmitHandler(ret.type) # Undefined
  /\ MapEntries(initializedRecords[ret.type]) # <<>>
  /\ warned # <<>>

\* C7 as stated: getRecord for a type no record has been created under
\* warns `No records found for type {type}` and returns null.
C7_NeverCreatedWarnsNoType ==
  ret.op = "getRecord" /\ ret.type \notin CreatedTypes =>
    /\ warned = <<<<"No records found for type ", ret.type>>>>
    /\ ret.value = Undefined /\ ret.outcome = "returned"

\* C7 amended: getRecord for a type that neither create nor submit has been
\* called with warns `No records found for type {type}` and returns null;
\* for a type submit has been called with and create has not, it returns
\* null with the warning of a missing id.
C7_UnreferencedWarnsNoType ==
  ret.op = "getRecord" /\ ret.type \notin CreatedTypes =>
    /\ ret.value = Undefined /\ ret.outcome = "returned"
    /\ warned = IF ret.type \in submitted
                  THEN <<<<"Record with id ", ret.id[1],
                           " not found for type ", ret.type>>>>
                  ELSE <<<<"No records found for type ", ret.type>>>>

\* C7 witness: getRecord for a type never passed to create or submit, after
\* records of another type were created and submitted.
C7_Witness ==
  /\ ret.op = "getRecord"
  /\ ret.type \notin CreatedTypes \cup submitted
  /\ created # <<>> /\ submitted # {}
  /\ warned = <<<<"No records found for type ", ret.type>>>>

\* C8 as stated: the types create and submit have been called with, and the
\* type of a getRecord call that has just returned, have a partition.
C8_PartitionOnFirstReference ==
  \A type \in CreatedTypes \cup submitted \cup
              (IF ret.op = "getRecord" THEN {ret.type} ELSE {}) :
    HasType(initializedRecords, type)

\* C8 amended: the types that have a partition are, at every moment, the
\* types create or submit has been called with: the first create or submit
\* for a type makes its partition, getRecord makes none, and none is ever
\* removed.
C8_PartitionOnCreateOrSubmit ==
  DOMAIN initializedRecords = CreatedTypes \cup submitted

\* C8 witness: a partition is still there, empty, after its records were
\* submitted, and getRecord has just returned for a type that has none.
C8_Witness ==
  /\ ret.op = "getRecord" /\ ~HasType(initializedRecords, ret.type)
  /\ \E i \in DOMAIN created :
       /\ created[i].resolved >= 1
       /\ HasType(initializedRecords, created[i].record.type)
       /\ MapEntries(initializedRecords[created[i].record.type]) = <<>>

\* C9 as stated: a lookup that resolves to not found leaves the storage as
\* it was, so that getRecord returns and warns afterwards as before.
C9_FailedLookupChangesNothing ==
  [][FailedLookup' =>
       /\ initializedRecords' = initializedRecords
       /\ \A type \in Types, id \in Ids :
            /\ GetRecordValue(initializedRecords', type, id) =
                 GetRecordValue(initializedRecords, type, id)
            /\ GetRecordWarning(initializedRecords', type, id) =
                 GetRecordWarning(initializedRecords, type, id)]_vars

\* C9 amended: a lookup that resolves to not found calls no handler and
\* leaves every partition and record as it was; a getRecord adds nothing,
\* and a single-mode submit adds the empty partition of its type when
\* there was none.
C9_FailedLookupKeepsRecords ==
  [][FailedLookup' =>
       /\ \A t \in DOMAIN initializedRecords :
            /\ HasType(initializedRecords', t)
            /\ initializedRecords'[t] = initializedRecords[t]
       /\ DOMAIN initializedRecords' =
            DOMAIN initializedRecords \cup
              (IF ret'.op = "submit" THEN {ret'.type} ELSE {})
       /\ \A t \in DOMAIN initializedRecords' \ DOMAIN initializedRecords :
            initializedRecords'[t] = <<>>
       /\ Handled' = Handled
       /\ Len(stack') = Len(stack)]_vars

\* C9 witness: a single-mode submit that found nothing has made the empty
\* partition of its type, while a record of another type is stored.
C9_Witness ==
  /\ FailedSubmit
  /\ ret.type \notin CreatedTypes
  /\ initializedRecords[ret.type] = <<>>
  /\ \E t \in DOMAIN initializedRecords : MapEntries(initializedRecords[t]) # <<>>

\* onSubmit is not configured, or is a table in which the program has put
\* no entry for the type.
NoEntryFor(type) ==
  \/ options.onSubmit = "undefined"
  \/ options.onSubmit = "table" /\ type \notin options.handlers

\* C10: where onSubmit is not configured or is a table with no entry for
\* its type, a submit that resolves records, in bulk or by an id it finds,
\* returns with no handler called and no warning, and none of the records
\* it resolved is stored any more.
C10_NoHandlerStillRemoves ==
  /\ \A i \in DOMAIN created :
       NoEntryFor(created[i].record.type) => created[i].handled = 0
  /\ ret.op = "submit" /\ NoEntryFor(ret.type) /\ (ret.bulk \/ ret.found) =>
       /\ ret.outcome = "returned"
       /\ ret.disp = <<>>
       /\ warned = <<>>
       /\ \A k \in DOMAIN ret.atCall :
            ret.bulk \/ ret.atCall[k].key = ret.id =>
              /\ Stored(ret.type, ret.atCall[k].value.id) = Undefined
              /\ created[ret.atCall[k].sn].resolved >= 1

\* C11: a bulk submit on a type whose partition is absent or holds no record
\* returns with no handler called and no warning, leaves every partition
\* there was as it was, and leaves the partition of its type present and
\* holding no record.
C11_EmptyBulkSubmit ==
  [][ret'.op = "submit" /\ ret'.bulk /\ ret'.atCall = <<>> =>
       /\ ncalls' = ncalls + 1
       /\ ret'.outcome = "returned" /\ ret'.disp = <<>>
       /\ Handled' = Handled
       /\ Len(stack') = Len(stack)
       /\ warned' = <<>>
       /\ HasType(initializedRecords', ret'.type)
       /\ MapEntries(initializedRecords'[ret'.type]) = <<>>
       /\ \A t \in DOMAIN initializedRecords :
            /\ HasType(initializedRecords', t)
            /\ initializedRecords'[t] = initializedRecords[t]]_vars

\* C11 witness: with a handler for the type, a bulk submit has returned from
\* a type create was never called with, while a record of another type is
\* stored.
C11_Witness ==
  /\ ret.op = "submit" /\ ret.bulk /\ ret.atCall = <<>>
  /\ SubmitHandler(ret.type) # Undefined
  /\ ret.type \notin CreatedTypes
  /\ initializedRecords[ret.type] = <<>>
  /\ \E t \in DOMAIN initializedRecords : MapEntries(initializedRecords[t]) # <<>>

\* A create call has obtained its id and stored its record in the step.
CreateStored == Len(created') = Len(created) + 1

\* C12 as stated: every create call returns a record with the id the
\* generator produced and its type, which is stored under its type and id,
\* and has called onCreate, when configured, once, with that record, after
\* it was stored.
C12_CreateAlwaysReturns ==
  ret.op = "create" =>
    /\ ret.outcome = "returned"
    /\ ret.value = Some(ret.record)
    /\ ret.id # Undefined
    /\ ret.record.id = ret.id[1] /\ ret.record.type = ret.type
    /\ Stored(ret.type, ret.record.id) = Some(ret.record)
    /\ options.onCreate =>
         ret.seen = <<[arg |-> ret.record, stored |-> Some(ret.record)]>>

\* C12 amended: a create call whose generator returns stores, under its
\* type and id, a record with the id the generator produced (with the
\* default generator, the id of no record stored before), its type and the
\* time of the call, and then calls onCreate, when configured and not
\* otherwise, once, with that record; the call ends by returning that
\* record, or by throwing when the generator threw, in which case nothing
\* was stored or called, or when onCreate threw.
C12_CreateStoresThenNotifies ==
  [][/\ CreateStored =>
          LET r == created'[Len(created')].record
              call == [arg |-> r, stored |-> Some(r)]
          IN  /\ ncalls' = ncalls + 1
              /\ r.id \in Ids /\ r.type \in Types /\ r.createdAt = now'
              /\ ~options.generateId =>
                   r.id # "" /\ r.id \notin LiveIds(initializedRecords)
              /\ HasType(initializedRecords', r.type)
              /\ MapGet(initializedRecords'[r.type], r.id) = Some(r)
              /\ Handled' = [i \in DOMAIN created' |->
                              IF i \in DOMAIN created THEN Handled[i] ELSE 0]
              /\ IF options.onCreate
                   THEN /\ Len(stack') = Len(stack) + 1
                        /\ stack'[Len(stack')].op = "create"
                        /\ stack'[Len(stack')].record = r
                        /\ stack'[Len(stack')].seen = <<call>>
                        /\ ret' = NoRet
                   ELSE /\ Len(stack') = Len(stack)
                        /\ ret'.op = "create" /\ ret'.outcome = "returned"
                        /\ ret'.value = Some(r) /\ ret'.seen = <<>>
     /\ ret'.op = "create" =>
          /\ ret'.outcome \in {"returned", "threw"}
          /\ ret'.outcome = "returned" =>
               /\ ret'.value = Some(ret'.record)
               /\ ret'.id = Some(ret'.record.id)
               /\ ret'.record.type = ret'.type
               /\ \E i \in DOMAIN created' : created'[i].record = ret'.record
               /\ Len(ret'.seen) = IF options.onCreate THEN 1 ELSE 0
          /\ ret'.outcome = "threw" =>
               /\ ret'.value = Undefined
               /\ IF ret'.id = Undefined
                    THEN /\ options.generateId
                         /\ ret'.seen = <<>>
                         /\ ncalls' = ncalls + 1
                         /\ UNCHANGED <<initializedRecords, now, created>>
                         /\ Len(stack') = Len(stack)
                    ELSE /\ options.onCreate
                         /\ Len(ret'.seen) = 1
                         /\ ncalls' = ncalls
          /\ ~CreateStored /\ ret'.id # Undefined =>
               /\ stack # <<>>
               /\ stack[Len(stack)].op = "create"
               /\ stack[Len(stack)].record = ret'.record
               /\ ret'.seen = stack[Len(stack)].seen
               /\ stack' = SubSeq(stack, 1, Len(stack) - 1)
               /\ UNCHANGED <<initializedRecords, created>>]_vars

\* C12 witness: with the default generator and onCreate, a second create
\* of a type has returned its record, at a later time than the first.
C12_Witness ==
  /\ ret.op = "create" /\ ret.outcome = "returned"
  /\ ~options.generateId /\ options.onCreate
  /\ Len(created) = 2 /\ created[1].record.type = ret.type
  /\ ret.seen # <<>>
  /\ ret.record.createdAt > created[1].record.createdAt
  /\ Len(MapEntries(initializedRecords[ret.type])) = 2

\* The submit calls running or just ended.
SubmitCalls ==
  {stack[i] : i \in {j \in DOMAIN stack : stack[j].op = "submit"}} \cup
    (IF ret.op = "submit"
       THEN {[Frame0 EXCEPT !.op = "submit", !.arg = ret.arg, !.id = ret.id,
                            !.bulk = ret.bulk]}
       ELSE {})

\* The idOrRecord of the call names no id: it was omitted, an object without
\* an id, or the empty string.
NamesNoId(f) ==
  \/ f.arg = "undefined"
  \/ f.arg = "object" /\ f.id \in {Undefined, Some("")}
  \/ f.arg = "string" /\ f.id = Some("")

\* C13: a submit call is in bulk mode exactly when its idOrRecord names no
\* id, and in single mode for the id its string or record object names
\* otherwise; having returned, a bulk call has left no record of its type
\* stored, and a single call whose handler called neither create nor submit
\* has removed the record of its id and left the others of the partition
\* stored, and has called the handler for no other.
C13_BulkIffNoId ==
  /\ \A f \in SubmitCalls :
       /\ f.bulk <=> NamesNoId(f)
       /\ ~f.bulk => \E id \in Ids \ {""} : f.id = Some(id)
  /\ SubmitReturned /\ NamesNoId(ret) =>
       \A id \in Ids : Stored(ret.type, id) = Undefined
  /\ SubmitReturned /\ ~NamesNoId(ret) /\ ~ret.nested =>
       /\ \A k \in DOMAIN ret.atCall :
            Stored(ret.type, ret.atCall[k].value.id) =
              IF ret.atCall[k].key = ret.id THEN Undefined
              ELSE Some(ret.atCall[k].value)
       /\ \A k \in DOMAIN ret.disp : Some(ret.disp[k].arg.id) = ret.id
       /\ Len(ret.disp) <= 1

\* C13 witness: a bulk submit called with the empty string has returned
\* from the handler, having been called by the handler of a bulk submit
\* called with a record whose id is the empty string.
C13_Witness ==
  /\ SubmitReturned /\ ret.bulk /\ ret.arg = "string" /\ ret.disp # <<>>
  /\ \E i \in DOMAIN stack :
       stack[i].bulk /\ stack[i].arg = "object" /\ stack[i].id = Some("")

\* C14: a getRecord that finds a record returns the record stored under
\* its type and id, which is the one create made, with no warning, and
\* leaves the storage, the record included, and the calls of handlers as
\* they were, so that the same call again returns the same record.
C14_GetRecordOnlyReads ==
  [][ret'.op = "getRecord" /\ ret'.found =>
       /\ ret'.outcome = "returned"
       /\ HasType(initializedRecords, ret'.type)
       /\ LET entry == MapEntry(initializedRecords[ret'.type], ret'.id[1])
          IN  /\ ret'.value = Some(entry.value)
              /\ entry.value = created[entry.sn].record
              /\ entry.value.id = ret'.id[1] /\ entry.value.type = ret'.type
       /\ warned' = <<>>
       /\ initializedRecords' = initializedRecords
       /\ GetRecordValue(initializedRecords', ret'.type, ret'.id[1]) = ret'.value
       /\ created' = created /\ stack' = stack]_vars

\* C14 witness: the handler of a submit has read, with getRecord, the record
\* it is being passed.
C14_Witness ==
  /\ ret.op = "getRecord" /\ ret.found
  /\ stack # <<>>
  /\ stack[Len(stack)].op = "submit"
  /\ ret.value = Some(stack[Len(stack)].record)
  /\ Stored(ret.type, ret.id[1]) = ret.value

\* The step is one of a submit call for the type: the call itself, up to its
\* return or to its first handler call, or the return or the throw of its
\* running handler.
SubmitStepOf(type) ==
  \/ /\ ncalls' = ncalls + 1
     /\ Len(stack') = Len(stack) + 1
     /\ stack'[Len(stack')].op = "submit"
     /\ stack'[Len(stack')].type = type
  \/ /\ ncalls' = ncalls + 1
     /\ Len(stack') = Len(stack)
     /\ ret'.op = "submit" /\ ret'.type = type
  \/ /\ ncalls' = ncalls
     /\ stack # <<>>
     /\ stack[Len(stack)].op = "submit"
     /\ stack[Len(stack)].type = type

\* C15: a step of a submit call for a type, in single or in bulk mode,
\* leaves the partition of every other type as it was, resolves and passes
\* to a handler no record of another type, and passes only records stored
\* under its type, whatever the type of the record object it was called
\* with and whatever other types hold under the same id.
C15_PartitionsIndependent ==
  [][\A type \in Types : SubmitStepOf(type) =>
       /\ DOMAIN initializedRecords' = DOMAIN initializedRecords \cup {type}
       /\ \A t \in DOMAIN initializedRecords \ {type} :
            initializedRecords'[t] = initializedRecords[t]
       /\ \A i \in DOMAIN created :
            created[i].record.type # type =>
              /\ created'[i].resolved = created[i].resolved
              /\ created'[i].handled = created[i].handled
       /\ \A k \in DOMAIN ret'.disp : ret'.disp[k].arg.type = type
       /\ \A i \in DOMAIN stack' :
            stack'[i].type = type =>
              /\ stack'[i].record.type = type
              /\ \A k \in DOMAIN stack'[i].disp :
                   /\ stack'[i].disp[k].arg.type = type
                   /\ created'[stack'[i].disp[k].sn].record.type = type]_vars

\* C15 witness: a submit called with a record object of another type has
\* passed the record its own type holds under that id to the handler and
\* removed it, and the record it was called with is still stored.
C15_Witness ==
  /\ SubmitReturned /\ ~ret.bulk /\ ret.found /\ ret.arg = "object"
  /\ ret.argType \in Types \ {ret.type}
  /\ Len(ret.disp) = 1 /\ ret.disp[1].arg.type = ret.type
  /\ Stored(ret.type, ret.id[1]) = Undefined
  /\ Stored(ret.argType, ret.id[1]) # Undefined

\* C16: a bulk submit that has returned has called the handler once for each
\* record its partition held when submit was called, and for no other
\* record; stated for the runs in which every other call made, by the
\* program or by the handler, is a create.
C16_BulkSubmitsRecordsAtCall ==
  /\ SubmitReturned /\ ret.bulk /\ SubmitHandler(ret.type) # Undefined
  /\ Len(created) = ncalls - 1
  => /\ Len(ret.disp) = Len(ret.atCall)
     /\ \A k \in DOMAIN ret.atCall : ret.disp[k].sn = ret.atCall[k].sn

\* C18: when the handler of a submit call throws, the call ends there with
\* the exception, back in its caller, and nothing is removed by that step,
\* the step of a handler that was running or of the call itself;
\* if the handler called neither create nor submit, the record it was
\* passed is still stored, and in bulk mode the records of the partition
\* passed before it are removed and those after it, which no handler has
\* been called for, are still stored.
C18_FailedHandlerKeepsRecord ==
  [][ret'.op = "submit" /\ ret'.outcome = "threw" =>
       /\ IF ncalls' = ncalls
            THEN /\ stack # <<>>
                 /\ stack[Len(stack)].op = "submit"
                 /\ stack' = SubSeq(stack, 1, Len(stack) - 1)
                 /\ created' = created
            ELSE Len(stack') = Len(stack)
       /\ ret'.value = Undefined
       /\ initializedRecords' = initializedRecords
       /\ ~ret'.nested =>
            LET n == Len(ret'.disp)
                stored(k) == GetRecordValue(initializedRecords', ret'.type,
                                            ret'.atCall[k].value.id)
            IN  /\ n >= 1
                /\ ret'.disp[n].arg.id = ret'.record.id
                /\ GetRecordValue(initializedRecords', ret'.type, ret'.record.id)
                     = Some(ret'.record)
                /\ ~ret'.bulk =>
                     /\ n = 1
                     /\ \A k \in DOMAIN ret'.atCall :
                          stored(k) = Some(ret'.atCall[k].value)
                /\ ret'.bulk =>
                     /\ n <= Len(ret'.atCall)
                     /\ \A k \in DOMAIN ret'.atCall :
                          /\ k <= n => ret'.disp[k].sn = ret'.atCall[k].sn
                          /\ k < n => stored(k) = Undefined
                          /\ k >= n => stored(k) = Some(ret'.atCall[k].value)]_vars

\* C18 witness: the handler of a bulk submit over two records has returned
\* for the first and thrown for the second.
C18_Witness ==
  /\ ret.op = "submit" /\ ret.outcome = "threw" /\ ret.bulk /\ ~ret.nested
  /\ Len(ret.atCall) = 2 /\ Len(ret.disp) = 2
  /\ Stored(ret.type, ret.atCall[1].value.id) = Undefined
  /\ Stored(ret.type, ret.atCall[2].value.id) = Some(ret.atCall[2].value)

\* C19: no partition holds two records under one id.  A create whose id is
\* stored under its type replaces that record, in its place, with no handler
\* called for it, and the record replaced is stored nowhere afterwards; a
\* single-mode submit that finds its id and whose handler calls neither
\* create nor submit passes one record to the handler, the one created last
\* under that type and id.
C19_OneRecordPerId ==
  [][/\ \A t \in DOMAIN initializedRecords' :
          \A i, j \in DOMAIN initializedRecords'[t] :
            /\ initializedRecords'[t][i].key # Undefined
            /\ initializedRecords'[t][i].key = initializedRecords'[t][j].key
            => i = j
     /\ CreateStored =>
          LET r == created'[Len(created')].record
          IN  GetRecordValue(initializedRecords, r.type, r.id) # Undefined
              => LET old == MapEntry(initializedRecords[r.type], r.id)
                 IN  /\ GetRecordValue(initializedRecords', r.type, r.id) = Some(r)
                     /\ created'[old.sn].handled = created[old.sn].handled
                     /\ created'[old.sn].resolved = created[old.sn].resolved
                     /\ created'[old.sn].collided
                     /\ \A t \in DOMAIN initializedRecords' :
                          \A k \in DOMAIN initializedRecords'[t] :
                            initializedRecords'[t][k].sn # old.sn
                     /\ Len(initializedRecords'[r.type])
                          = Len(initializedRecords[r.type])
     /\ /\ ret'.op = "submit" /\ ~ret'.bulk /\ ret'.found /\ ~ret'.nested
        /\ ret'.disp # <<>>
        => /\ Len(ret'.disp) = 1
           /\ created'[ret'.disp[1].sn].record.id = ret'.id[1]
           /\ ~created'[ret'.disp[1].sn].collided]_vars

\* C19 witness: a record was replaced by a create with its id and never
\* passed to a handler, and a single-mode submit for that id has passed the
\* later record to the handler and returned.
C19_Witness ==
  /\ SubmitReturned /\ ~ret.bulk /\ ret.found /\ Len(ret.disp) = 1
  /\ \E i \in DOMAIN created :
       /\ created[i].collided /\ created[i].handled = 0 /\ created[i].resolved = 0
       /\ created[i].record.type = ret.type /\ created[i].record.id = ret.id[1]
       /\ i < ret.disp[1].sn
  /\ Stored(ret.type, ret.id[1]) = Undefined

----------------------------------------------------------------------------
\* The tracker under a handler that calls create, once on each invocation,
\* for the type it is passed, with the default generator and no onCreate.
\* Calls are not bounded here, so the history is left as it is: created,
\* ncalls and submitted do not change, a record has no serial number, and
\* disp holds the handler call that is running and not the ones before it.
\* An id is fresh when no stored record has it, and emptied entries, which
\* forEach has passed and nothing reads, are dropped from the partitions.

\* The ids of the default generator.  The program stores fewer records than
\* there are ids less one, so that a fresh id is left for the handler.
PoolIds == {"a", "b", "c"}

FreshIds(recs) == PoolIds \ LiveIds(recs)

\* The storage with the emptied entries of the partition of type dropped.
Compact(recs, type) == [recs EXCEPT ![type] = MapEntries(@)]

\* create(type), where the generator returns id and Date.now() t
\* (tracker.ts:72-79): the record is stored and returned.
CreateFresh(type, id, t) ==
  /\ id \in FreshIds(initializedRecords)
  /\ DateNow(t)
  /\ LET record == TrackingInitialRecord(id, type, t)
     IN  /\ initializedRecords' =
              [EnsureTypeRecords(initializedRecords, type) EXCEPT
                 ![type] = MapSet(@, id, record, 0)]
         /\ ret' = Ended([Frame0 EXCEPT !.op = "create", !.type = type,
                                        !.id = Some(id), !.record = record],
                         Some(record), "returned")
  /\ warned' = <<>>

\* The program calls create.
ProgramCreates(type, id, t) ==
  /\ stack = <<>>
  /\ Cardinality(LiveIds(initializedRecords)) + 1 < Cardinality(PoolIds)
  /\ CreateFresh(type, id, t)
  /\ UNCHANGED <<options, stack, created, ncalls, submitted>>

\* The program calls submit (tracker.ts:97-119), where Date.now() returns
\* t, for a type whose fn is undefined or a handler: the call returns, with
\* a warning when its id is not stored, or is suspended in the handler of
\* the first record it dispatches.
ProgramSubmits(type, data, idOrRecord, t) ==
  /\ stack = <<>>
  /\ SubmitHandler(type) = Undefined \/ IsCallback(SubmitHandler(type))
  /\ DateNow(t)
  /\ LET recs == EnsureTypeRecords(initializedRecords, type)
         records == recs[type]
         id == ResolveId(idOrRecord)
         fn == SubmitHandler(type)
         i == NextLive(records, 1)
         frame == [Frame0 EXCEPT !.op = "submit", !.type = type, !.data = data,
                                 !.submittedAt = t,
                                 !.arg = idOrRecord.kind,
                                 !.argType = idOrRecord.obj.type, !.id = id,
                                 !.bulk = Falsy(id),
                                 !.atCall = MapEntries(records)]
     IN  IF Falsy(id)
           THEN /\ warned' = <<>>
                /\ IF fn = Undefined
                     THEN /\ initializedRecords' =
                               Compact(DeleteEach(recs, type, 1), type)
                          /\ stack' = stack
                          /\ ret' = Ended(frame, Undefined, "returned")
                   ELSE IF i = 0
                     THEN /\ initializedRecords' = recs
                          /\ stack' = stack
                          /\ ret' = Ended(frame, Undefined, "returned")
                   ELSE   /\ initializedRecords' = recs
                          /\ stack' =
                               <<[frame EXCEPT
                                    !.index = i, !.record = records[i].value,
                                    !.disp = <<Invocation(fn[1], records[i],
                                                          t, data)>>]>>
                          /\ ret' = NoRet
         ELSE IF MapGet(records, id[1]) = Undefined
           THEN /\ initializedRecords' = recs
                /\ stack' = stack
                /\ ret' = Ended(frame, Undefined, "returned")
                /\ warned' = <<WarnNoId(id[1], type)>>
         ELSE IF fn = Undefined
           THEN /\ initializedRecords' =
                     Compact(DeleteRecord(recs, type, id[1]), type)
                /\ stack' = stack
                /\ ret' = Ended([frame EXCEPT
                                   !.found = TRUE,
                                   !.record = MapEntry(records, id[1]).value],
                                Undefined, "returned")
                /\ warned' = <<>>
         ELSE   /\ initializedRecords' = recs
                /\ stack' =
                     <<[frame EXCEPT
                          !.found = TRUE,
                          !.record = MapEntry(records, id[1]).value,
                          !.disp = <<Invocation(fn[1], MapEntry(records, id[1]),
                                                t, data)>>]>>
                /\ ret' = NoRet
                /\ warned' = <<>>
  /\ UNCHANGED <<options, created, ncalls, submitted>>

\* The running handler calls create for the type of the record it was
\* passed.
HandlerCreates(id, t) ==
  /\ stack # <<>>
  /\ ~stack[1].nested
  /\ CreateFresh(stack[1].type, id, t)
  /\ stack' = Mark(stack)
  /\ UNCHANGED <<options, created, ncalls, submitted>>

\* The handler returns, having called create: the record passed is deleted
\* (tracker.ts:108, 118) and submit returns or, in bulk mode, forEach goes
\* on to the next entry of the partition, if there is one.
HandlerReturns ==
  /\ stack # <<>>
  /\ stack[1].nested
  /\ LET f == stack[1]
         fn == SubmitHandler(f.type)
         recs == DeleteRecord(initializedRecords, f.type, f.record.id)
         i == NextLive(recs[f.type], f.index + 1)
         compact == Compact(recs, f.type)
     IN  /\ initializedRecords' = compact
         /\ IF f.bulk /\ i # 0
              THEN /\ stack' =
                        <<[f EXCEPT
                             !.index = NextLive(compact[f.type], 1),
                             !.record = recs[f.type][i].value,
                             !.disp = <<Invocation(fn[1], recs[f.type][i],
                                                   f.submittedAt, f.data)>>,
                             !.nested = FALSE]>>
                   /\ ret' = NoRet
              ELSE /\ stack' = <<>>
                   /\ ret' = Ended(f, Undefined, "returned")
  /\ warned' = <<>>
  /\ UNCHANGED <<options, now, created, ncalls, submitted>>

InitDefault ==
  InitOf({o \in Options : /\ ~o.generateId /\ ~o.onCreate
                          /\ o.handlers \subseteq {"pageView", "click"}})

NextHandlerCreates ==
  \/ \E type \in {"pageView", "click"}, id \in PoolIds, t \in Times :
       ProgramCreates(type, id, t)
  \/ \E type \in {"pageView", "click"}, data \in Data,
        idOrRecord \in {Omitted} \cup {Str(id) : id \in PoolIds}, t \in Times :
       ProgramSubmits(type, data, idOrRecord, t)
  \/ \E id \in PoolIds, t \in Times : HandlerCreates(id, t)
  \/ HandlerReturns

\* A handler that runs calls create and returns, and forEach goes on when it
\* has: JavaScript runs the call to its end on one thread.
SpecHandlerCreates ==
  /\ InitDefault
  /\ [][NextHandlerCreates]_vars
  /\ WF_vars(\E id \in PoolIds, t \in Times : HandlerCreates(id, t))
  /\ WF_vars(HandlerReturns)

\* C17: every submit call returns: a call whose handler is running is
\* followed by a state in which no call is running.
C17_SubmitReturns == (stack # <<>>) ~> (stack = <<>>)

====
